---- MODULE Spec2Model ----
(***************************************************************************)
(* RekLog request tracker (src/src/index.js): the session registry         *)
(* (activeLogs), the manual start/end path, the Express middleware and the *)
(* delivery pipeline (sendLog) with its per-attempt timeout and linear     *)
(* backoff, and the sanitizer (maskSensitiveData) over the objects the      *)
(* caller and the framework hand in.                                       *)
(*                                                                         *)
(* JavaScript runs each synchronous section to completion, so one action   *)
(* is one such section: a call of start/end/the middleware/the res.send    *)
(* wrapper up to its first await, or the continuation that runs when a     *)
(* promise settles or a timer fires.  In SpecDelivery time is a            *)
(* millisecond clock that advances to the next pending timer deadline and  *)
(* everything else happens at the current instant; Spec, with several      *)
(* records in flight, lets timers fire in any order instead.  SpecTimers   *)
(* adds the fairness of the event loop's timers; SpecDebug runs a second   *)
(* Tracker, of the opposite debug flag, through the same calls.            *)
(***************************************************************************)
EXTENDS Integers, Sequences, FiniteSets, TLC

\* ---- bounds of the model ----
MaxStarts == 2          \* sessions ever started (start() or middleware entry)
MaxRecords == 2         \* Log Records ever handed to sendLog
SharedCeiling == 2      \* largest retry ceiling when MaxRecords records are in flight
SoloStarts == 1         \* sessions and records in the single-record specification
MaxEndCalls == 2        \* manual end() calls
MaxRetryAttempts == 4   \* largest options.retryAttempts a caller supplies
MaxRetryDelay == 1      \* largest options.retryDelay a caller supplies
RandomSuffixes == 2     \* distinct values of the random id suffix
MaxSanitized == 2       \* direct calls of maskSensitiveData
MaxInputs == 1          \* of them, calls on a value of the caller
MaxWrites == 1          \* writes of the caller to objects it passed in

\* ---- program constants ----
DefaultRetryAttempts == 3
DefaultRetryDelay == 1000
TimeoutMs == 5000

VARIABLES
  options,        \* the options object given to the constructor
  retryAttempts,  \* this.retryAttempts
  retryDelay,     \* this.retryDelay
  host,           \* this.host
  debug,          \* this.debug
  maskFields,     \* this.maskFields
  now,            \* the clock (ms): Date.now(), performance.now(), timers
  activeLogs,     \* this.activeLogs: the Map logId -> session
  issued,         \* every session ever created, in order (history)
  endCalls,       \* the promises returned by end(), in call order
  deliveries,     \* one entry per Log Record handed to sendLog
  requests,       \* requests that entered the middleware
  wrapped,        \* invocations of the res.send wrapper (history)
  finalized,      \* invocations of the original res.send (history)
  heap,           \* the objects and arrays of the process, by address
  sanitized,      \* direct calls of maskSensitiveData (history)
  peer            \* a second Tracker, given the same calls (when followed)

vars == <<options, retryAttempts, retryDelay, host, debug, maskFields, now,
          activeLogs, issued, endCalls, deliveries, requests, wrapped, finalized,
          heap, sanitized, peer>>

\* ------------------------------------------------------------------------
\* JavaScript values
\* ------------------------------------------------------------------------
Undefined == [type |-> "undefined"]
Null == [type |-> "null"]
Str(s) == [type |-> "string", v |-> s]
Num(s) == [type |-> "number", v |-> s]
Obj(f) == [type |-> "object", fields |-> f]
Arr(s) == [type |-> "array", items |-> s]

\* an optional numeric option: <<>> when the key is absent, <<n>> when given
Opt(max) == {<< >>} \cup {<<n>> : n \in 0..max}

\* `x || d` on an optional number: undefined and 0 are falsy
OrDefault(opt, d) == IF opt = << >> THEN d ELSE IF opt[1] = 0 THEN d ELSE opt[1]

\* `data && ...`: undefined, null, "" and 0 are falsy
Truthy(data) ==
  /\ data.type \notin {"undefined", "null"}
  /\ (data.type = "string" => data.v # "")
  /\ (data.type = "number" => data.v # "0")

\* String.prototype.toLowerCase on the key names the model uses
LowerOf == [Token |-> "token", Password |-> "password", PASSWORD |-> "password",
            PIN |-> "pin", Pin |-> "pin", oldPassword |-> "oldpassword",
            Authorization |-> "authorization"]
ToLowerCase(s) == IF s \in DOMAIN LowerOf THEN LowerOf[s] ELSE s

\* JSON.parse on the texts the model uses; any other text throws SyntaxError
JSONTexts == {"{\"id\":1}", "{\"token\":\"t\"}", "{\"token\":\"u\"}"}
JSONParse(text) ==
  IF text = "{\"id\":1}" THEN Obj([id |-> Num("1")])
  ELSE IF text = "{\"token\":\"t\"}" THEN Obj([token |-> Str("t")])
  ELSE Obj([token |-> Str("u")])

\* ------------------------------------------------------------------------
\* objects: a value is a scalar or a reference to a cell of the heap; a cell
\* is Obj(f) or Arr(s) whose members are values
\* ------------------------------------------------------------------------
Ref(a) == [type |-> "ref", addr |-> a]

\* `typeof v === 'object' && v !== null`
IsObject(v) == v.type = "ref"

\* Array.isArray
IsArray(h, v) == IsObject(v) /\ h[v.addr].type = "array"

\* a new object or array: the heap with it, and the reference to it
New(h, cell) == [heap |-> Append(h, cell), value |-> Ref(Len(h) + 1)]

\* `o[key] = v` on an object
Store(h, a, key, v) == [h EXCEPT ![a] = Obj([k \in DOMAIN h[a].fields \cup {key} |->
                                              IF k = key THEN v ELSE h[a].fields[k]])]

\* the evaluation of an object or array literal (or of JSON.parse) that
\* denotes `tree`: its cells are created innermost first
RECURSIVE Alloc(_, _), AllocFields(_, _, _, _), AllocItems(_, _, _, _)
Alloc(h, tree) ==
  IF tree.type = "object" THEN AllocFields(h, tree.fields, DOMAIN tree.fields, << >>)
  ELSE IF tree.type = "array" THEN AllocItems(h, tree.items, 1, << >>)
  ELSE [heap |-> h, value |-> tree]

AllocFields(h, fields, keys, acc) ==
  IF keys = {} THEN New(h, Obj(acc))
  ELSE LET key == CHOOSE k \in keys : TRUE
           r == Alloc(h, fields[key])
       IN AllocFields(r.heap, fields, keys \ {key},
                      [k \in DOMAIN acc \cup {key} |-> IF k = key THEN r.value ELSE acc[k]])

AllocItems(h, items, i, acc) ==
  IF i > Len(items) THEN New(h, Arr(acc))
  ELSE LET r == Alloc(h, items[i])
       IN AllocItems(r.heap, items, i + 1, Append(acc, r.value))

\* the value a reference denotes, cells expanded (what a deep comparison sees)
RECURSIVE ValueOf(_, _)
ValueOf(h, v) ==
  IF ~IsObject(v) THEN v
  ELSE IF h[v.addr].type = "array"
    THEN Arr([i \in DOMAIN h[v.addr].items |-> ValueOf(h, h[v.addr].items[i])])
  ELSE Obj([k \in DOMAIN h[v.addr].fields |-> ValueOf(h, h[v.addr].fields[k])])

\* JSON.stringify, the text given by the JSON value it encodes: a member whose
\* value is undefined is left out of an object and is null in an array
RECURSIVE JSONStringify(_, _)
JSONStringify(h, v) ==
  IF ~IsObject(v) THEN v
  ELSE IF h[v.addr].type = "array"
    THEN Arr([i \in DOMAIN h[v.addr].items |->
               IF h[v.addr].items[i] = Undefined THEN Null
               ELSE JSONStringify(h, h[v.addr].items[i])])
  ELSE Obj([k \in {j \in DOMAIN h[v.addr].fields : h[v.addr].fields[j] # Undefined} |->
             JSONStringify(h, h[v.addr].fields[k])])

\* ------------------------------------------------------------------------
\* constructor
\* ------------------------------------------------------------------------
\* an optional string or list option: << >> when the key is absent
OptOf(values) == {<< >>} \cup {<<v>> : v \in values}

\* `options.debug || false`
DebugOf(opt) == IF opt = << >> THEN FALSE ELSE opt[1]

\* `options.host || null`: undefined and "" are falsy
HostOf(opt) == IF opt = << >> THEN Null ELSE IF opt[1] = "" THEN Null ELSE Str(opt[1])

defaultMaskFields ==
  {"password", "token", "secret", "authorization", "api_key", "apikey",
   "access_token", "refresh_token", "credit_card", "cvv", "ssn"}

\* `options.maskFields ? [...new Set([...defaultMaskFields, ...options.maskFields])]
\*    .map(f => f.toLowerCase()) : defaultMaskFields` (an array is truthy, empty
\* or not); only membership is asked of the result, so it is kept as a set
MergeMaskFields(opt) ==
  IF opt = << >> THEN defaultMaskFields
  ELSE {ToLowerCase(f) : f \in defaultMaskFields \cup opt[1]}

\* ------------------------------------------------------------------------
\* maskSensitiveData
\* ------------------------------------------------------------------------
\* faulty variant: the key is compared as written
M_IsSensitive_CaseSensitive(key) == key \in maskFields

\* String.prototype.includes on the key names the model uses
Includes(s, sub) == s = sub \/ <<s, sub>> \in {<<"oldpassword", "password">>}

\* faulty variant: a key that contains a rule name matches
M_IsSensitive_Substring(key) == \E f \in maskFields : Includes(ToLowerCase(key), f)

\* faulty variant: nested structures are copied as they are
M_IsNested_Never(v) == FALSE

\* faulty variant: the marker depends on what it replaces
M_Redacted_ByType(v) == IF IsObject(v) THEN Str("[object]") ELSE Str("********")

\* faulty variant: the input object itself is written to
M_Spread_Alias(h, a) == [heap |-> h, value |-> Ref(a)]

\* `this.maskFields.includes(key.toLowerCase())`
IsSensitive(key) == ToLowerCase(key) \in maskFields

\* `typeof masked[key] === 'object' && masked[key] !== null`
IsNested(v) == IsObject(v)

\* `masked[key] = '********'`
Redacted(v) == Str("********")

\* `{ ...data }`: a new object with the members of data
Spread(h, a) == New(h, Obj(h[a].fields))

\* the array data.map(...) returns: a new array of the mapped items
MaskedArray(h, data, items) == New(h, Arr(items))

RECURSIVE maskSensitiveData(_, _), MaskKeys(_, _, _), MaskItems(_, _, _, _)
maskSensitiveData(h, data) ==
  IF ~Truthy(data) \/ ~IsObject(data) THEN [heap |-> h, value |-> data]
  ELSE IF IsArray(h, data) THEN MaskItems(h, data, 1, << >>)
  ELSE LET masked == Spread(h, data.addr)
       IN MaskKeys(masked.heap, masked.value.addr, DOMAIN masked.heap[masked.value.addr].fields)

\* `for (const key in masked) ...; return masked`, `keys` still to visit
MaskKeys(h, a, keys) ==
  IF keys = {} THEN [heap |-> h, value |-> Ref(a)]
  ELSE LET key == CHOOSE k \in keys : TRUE
           v == h[a].fields[key]
       IN IF IsSensitive(key)
            THEN MaskKeys(Store(h, a, key, Redacted(v)), a, keys \ {key})
          ELSE IF IsNested(v)
            THEN LET r == maskSensitiveData(h, v)
                 IN MaskKeys(Store(r.heap, a, key, r.value), a, keys \ {key})
          ELSE MaskKeys(h, a, keys \ {key})

\* `data.map(item => this.maskSensitiveData(item))`, from item i on
MaskItems(h, data, i, acc) ==
  IF i > Len(h[data.addr].items) THEN MaskedArray(h, data, acc)
  ELSE LET r == maskSensitiveData(h, h[data.addr].items[i])
       IN MaskItems(r.heap, data, i + 1, Append(acc, r.value))

\* ------------------------------------------------------------------------
\* the registry: a Map as a set of entries with pairwise different keys
\* ------------------------------------------------------------------------
MapHas(m, id) == \E e \in m : e.id = id
MapGet(m, id) == CHOOSE e \in m : e.id = id
MapSet(m, id, v) == {e \in m : e.id # id} \cup {[id |-> id, sid |-> v.sid, startTime |-> v.startTime]}
MapDelete(m, id) == {e \in m : e.id # id}

\* `${Date.now()}_${Math.random().toString(36).substr(2, 9)}`
GenId(t, r) == <<t, r>>

\* an id that start never returns (no time component)
BogusId == <<-1, 0>>

\* ------------------------------------------------------------------------
\* sendLog
\* ------------------------------------------------------------------------
\* `JSON.stringify(logData)`: the body of the transport call
Payload(h, logData) ==
  [responseTime |-> logData.responseTime,
   statusCode |-> logData.statusCode,
   host |-> JSONStringify(h, logData.host),
   body |-> JSONStringify(h, logData.body),
   params |-> JSONStringify(h, logData.params),
   requestHeaders |-> JSONStringify(h, logData.requestHeaders),
   response |-> JSONStringify(h, logData.response),
   metadata |-> JSONStringify(h, logData.metadata)]

\* faulty variant: the record is trimmed for printing
M_DebugSending_TrimsResponse(dbg, d, h) ==
  IF dbg THEN [d EXCEPT !.logData.response = Null,
                        !.console = Append(@, [text |-> "RekLog sending:",
                                               data |-> Payload(h, d.logData)])]
  ELSE d

\* `if (this.debug) console.log('RekLog sending:', JSON.stringify(logData, null, 2))`
\* in a Tracker whose debug flag is dbg
DebugSending(dbg, d, h) ==
  IF dbg THEN [d EXCEPT !.console = Append(@, [text |-> "RekLog sending:",
                                               data |-> Payload(h, d.logData)])]
  ELSE d

\* `if (this.debug) console.log('RekLog sent successfully')`
DebugSent(dbg, d) ==
  IF dbg THEN [d EXCEPT !.console = Append(@, [text |-> "RekLog sent successfully",
                                               data |-> Undefined])]
  ELSE d

\* the transport call and the timeout timer of one attempt, issued at time t
\* with the objects as they are in h
IssueAttempt(dbg, d, t, h) ==
  LET said == DebugSending(dbg, d, h)
  IN [said EXCEPT !.phase = "inflight",
                  !.payloads = Append(@, Payload(h, said.logData)),
                  !.fetches = Append(@, "pending"),
                  !.races = Append(@, "pending"),
                  !.timers = Append(@, [deadline |-> t + TimeoutMs, fired |-> FALSE]),
                  !.startedAt = Append(@, t)]

\* sendLog(logData): attempt = 1, runs synchronously up to the await of the race
NewDelivery(dbg, sid, via, logData, t, h) ==
  IssueAttempt(dbg,
               [sid |-> sid, via |-> via, logData |-> logData, attempt |-> 1,
                phase |-> "new", promise |-> "pending", payloads |-> << >>,
                fetches |-> << >>, races |-> << >>, timers |-> << >>,
                startedAt |-> << >>, failedAt |-> << >>,
                backoffAt |-> -1, waits |-> << >>,
                warns |-> 0, errors |-> 0, console |-> << >>], t, h)

\* faulty variant: the wait does not grow with the attempt number
M_BackoffDelay_Constant(attempt) == retryDelay

\* faulty variant: the last error is rethrown instead of logged
M_ExhaustedOutcome_Rethrow == "rejected"

\* faulty variant: a late settlement is handled although the race is over
M_RaceSettled_Never(d, k) == FALSE

\* faulty variant: the timer resolves the race with a success
M_TimeoutSettlement_Success == "ok"

\* `attempt < this.retryAttempts`
ShouldRetry(attempt) == attempt < retryAttempts

\* `this.retryDelay * attempt`
BackoffDelay(attempt) == retryDelay * attempt

\* the else branch of the catch: console.error, then the function returns
ExhaustedOutcome == "resolved"

\* the try block ran to its end
OnSuccess(dbg, d) == [DebugSent(dbg, d) EXCEPT !.phase = "sent", !.promise = "resolved"]

\* the catch block
OnFailure(d, t) ==
  IF ShouldRetry(d.attempt)
    THEN [d EXCEPT !.phase = "backoff",
                   !.failedAt = Append(@, t),
                   !.warns = @ + 1,
                   !.waits = Append(@, BackoffDelay(d.attempt)),
                   !.backoffAt = t + BackoffDelay(d.attempt)]
    ELSE [d EXCEPT !.phase = "dropped",
                   !.failedAt = Append(@, t),
                   !.errors = @ + 1,
                   !.promise = ExhaustedOutcome]

\* Promise.race settles once: later settlements of its inputs are ignored
RaceSettled(d, k) == d.races[k] # "pending"

\* `setTimeout(() => reject(new Error('Request timeout')), 5000)`: what the timer
\* hands to the race
TimeoutSettlement == "timeout"

\* faulty variant: the transport call is awaited alone, the timer is not raced
M_Settle_FetchOnly(dbg, d, k, outcome, t) ==
  IF RaceSettled(d, k) \/ outcome = "timeout" THEN d
  ELSE IF outcome = "ok"
    THEN OnSuccess(dbg, [d EXCEPT !.races[k] = "settled"])
    ELSE OnFailure([d EXCEPT !.races[k] = "settled"], t)

\* what a settlement of attempt k (a fetch result or "timeout") does in a
\* Tracker whose debug flag is dbg
Settle(dbg, d, k, outcome, t) ==
  IF RaceSettled(d, k) THEN d
  ELSE IF outcome = "ok"
    THEN OnSuccess(dbg, [d EXCEPT !.races[k] = "settled"])
    ELSE OnFailure([d EXCEPT !.races[k] = "settled"], t)

\* ------------------------------------------------------------------------
\* end
\* ------------------------------------------------------------------------
\* faulty variant: an unknown id throws
M_NotFoundOutcome_Throw == "rejected"

\* faulty variant: end leaves the entry in the registry
M_RegistryAfterEnd_Keep(m, id) == m

\* faulty variant: end does not await sendLog
M_EndState_NotAwaited(d) == "resolved"

\* `if (!log) { console.warn(...); return; }`: the async function returns
NotFoundOutcome == "resolved"

\* `this.activeLogs.delete(logId)` in end
RegistryAfterEnd(m, id) == MapDelete(m, id)

\* `await this.sendLog(logData)`: the promise end returned stays pending while
\* sendLog's is, and settles the way sendLog's does
EndState(d) == d.promise

\* the continuations of the end calls awaiting a delivery run in the same turn
\* of the event loop in which sendLog's promise settles (microtasks)
ResumeEnds(calls, ds) ==
  [c \in DOMAIN calls |->
     IF calls[c].delivery = 0 THEN calls[c]
     ELSE [calls[c] EXCEPT !.state = EndState(ds[calls[c].delivery])]]

\* `o.key`: undefined when the object has no such member
Get(h, o, key) == IF key \in DOMAIN h[o.addr].fields THEN h[o.addr].fields[key] ELSE Undefined

\* `x || null`
OrNull(x) == IF Truthy(x) THEN x ELSE Null

\* `options.metadata || {}`: the caller's object itself, or a new empty one
MetadataOf(h, opts) ==
  IF Truthy(Get(h, opts, "metadata"))
    THEN [heap |-> h, value |-> Get(h, opts, "metadata")]
    ELSE New(h, Obj(<< >>))

\* the Log Record end builds from the session and the options object (status
\* code left at its default): the heap after building it, and the record
EndLogData(h, log, opts, t) ==
  LET body == maskSensitiveData(h, Get(h, opts, "body"))
      params == maskSensitiveData(body.heap, Get(h, opts, "params"))
      requestHeaders == maskSensitiveData(params.heap, Get(h, opts, "requestHeaders"))
      response == maskSensitiveData(requestHeaders.heap, Get(h, opts, "response"))
      metadata == MetadataOf(response.heap, opts)
  IN [heap |-> metadata.heap,
      value |-> [responseTime |-> t - log.startTime, statusCode |-> 200,
                 host |-> host,
                 body |-> OrNull(body.value),
                 params |-> OrNull(params.value),
                 requestHeaders |-> OrNull(requestHeaders.value),
                 response |-> OrNull(response.value),
                 metadata |-> metadata.value]]

\* ------------------------------------------------------------------------
\* middleware
\* ------------------------------------------------------------------------
\* the payloads the framework hands to res.send (an object is given by the
\* literal that creates it)
Payloads ==
  {Undefined, Str("{\"token\":\"t\"}"), Str("oops"), Str(""), Obj([Token |-> Str("t")]),
   Num("42")}

\* the payloads sent when several records are in flight
SharedPayloads == {Undefined, Str("{\"token\":\"t\"}")}

\* a request object of the framework: body, query, params and the headers
\* req.get reads
Req(body, query, params, hostHeader) ==
  Obj([body |-> body, query |-> query, params |-> params,
       headers |-> Obj(IF hostHeader = Undefined THEN ("user-agent" :> Str("ua"))
                       ELSE ("host" :> hostHeader @@ "user-agent" :> Str("ua")))])

\* the request handled when the request itself does not matter
PlainReq == Req(Undefined, Obj(<< >>), Obj(<< >>), Str("example.com"))

\* `req.get(name)`
ReqGet(h, req, name) == Get(h, Get(h, req, "headers"), name)

\* faulty variant: a text that does not parse is recorded as it is
M_ParseResponse_KeepText(h, data) ==
  IF Truthy(data) /\ data.type = "string"
    THEN (IF data.v \in JSONTexts THEN Alloc(h, JSONParse(data.v))
          ELSE [heap |-> h, value |-> data])
  ELSE IF Truthy(data) /\ IsObject(data) THEN [heap |-> h, value |-> data]
  ELSE [heap |-> h, value |-> Null]

\* the try/catch that interprets the outgoing payload: the heap after it, and
\* `response`
ParseResponse(h, data) ==
  IF Truthy(data) /\ data.type = "string"
    THEN (IF data.v \in JSONTexts THEN Alloc(h, JSONParse(data.v))
          ELSE [heap |-> h, value |-> Null])
  ELSE IF Truthy(data) /\ IsObject(data) THEN [heap |-> h, value |-> data]
  ELSE [heap |-> h, value |-> Null]

\* faulty variant: the request's Host header is preferred to the configuration
M_HostField_RequestFirst(h, req) ==
  IF Truthy(ReqGet(h, req, "host")) THEN ReqGet(h, req, "host") ELSE host

\* faulty variant: the response is embedded as it is
M_ResponseField_Raw(h, response) == [heap |-> h, value |-> response]

\* `self.host || req.get('host') || null`
HostField(h, req) ==
  IF Truthy(host) THEN host ELSE OrNull(ReqGet(h, req, "host"))

\* `Object.keys(v).length`: the members of an object, the indices of an array
\* or a string (one stands for any positive length), none of another scalar
KeyCount(h, v) ==
  IF IsArray(h, v) THEN Len(h[v.addr].items)
  ELSE IF IsObject(v) THEN Cardinality(DOMAIN h[v.addr].fields)
  ELSE IF v.type = "string" /\ v.v # "" THEN 1
  ELSE 0

\* `req.query && Object.keys(req.query).length > 0 ? self.maskSensitiveData(req.query) : null`
ParamsField(h, query) ==
  IF Truthy(query) /\ KeyCount(h, query) > 0
    THEN maskSensitiveData(h, query)
    ELSE [heap |-> h, value |-> Null]

\* `self.maskSensitiveData({'content-type': ..., 'user-agent': ..., 'accept': ...})`
HeadersField(h, req) ==
  LET literal == New(h, Obj("content-type" :> ReqGet(h, req, "content-type")
                            @@ "user-agent" :> ReqGet(h, req, "user-agent")
                            @@ "accept" :> ReqGet(h, req, "accept")))
  IN maskSensitiveData(literal.heap, literal.value)

\* `self.maskSensitiveData(response)`
ResponseField(h, response) == maskSensitiveData(h, response)

\* the Log Record the wrapper builds for request object req entered at
\* startTime: the heap after building it, and the record
SendLogData(h, req, startTime, response, t) ==
  LET body == maskSensitiveData(h, Get(h, req, "body"))
      params == ParamsField(body.heap, Get(h, req, "query"))
      requestHeaders == HeadersField(params.heap, req)
      masked == ResponseField(requestHeaders.heap, response)
      metadata == New(masked.heap, Obj([routeParams |-> Get(h, req, "params")]))
  IN [heap |-> metadata.heap,
      value |-> [responseTime |-> t - startTime, statusCode |-> 200,
                 host |-> HostField(h, req),
                 body |-> OrNull(body.value),
                 params |-> params.value,
                 requestHeaders |-> requestHeaders.value,
                 response |-> masked.value,
                 metadata |-> metadata.value]]

\* faulty variant: the parsed response is forwarded instead of the payload
M_OriginalArgs_Parsed(self, data, response) == [this |-> self, data |-> response]

\* faulty variant: the original res.send is not invoked
M_CallOriginal_Skipped(calls, call) == calls

\* `self.activeLogs.delete(logId)` in the wrapper
RegistryAfterSend(m, id) == MapDelete(m, id)

\* the arguments of `originalSend.call(this, data)`
OriginalArgs(self, data, response) == [this |-> self, data |-> data]

\* `originalSend.call(this, data)`: one more invocation of the original
CallOriginal(calls, call) == Append(calls, call)

\* ------------------------------------------------------------------------
\* state machine
\* ------------------------------------------------------------------------
\* the host, debug and maskFields options a caller supplies
HostOptions == OptOf({"", "api.example.com"})
DebugOptions == OptOf(BOOLEAN)
MaskFieldOptions == OptOf({{}, {"PIN"}, {"pin", "Password"}})

\* the second Tracker, of the same configuration but for the debug flag, which
\* has the opposite value: its registry and its deliveries when it is followed
Alone == [followed |-> FALSE, activeLogs |-> {}, deliveries |-> << >>]
Paired == [followed |-> TRUE, activeLogs |-> {}, deliveries |-> << >>]

\* the second Tracker with registry m and deliveries ds
Beside(m, ds) ==
  IF peer.followed THEN [followed |-> TRUE, activeLogs |-> m, deliveries |-> ds]
  ELSE peer

\* new RekLog(apiKey, options)
Init ==
  /\ options \in [retryAttempts : Opt(MaxRetryAttempts), retryDelay : Opt(MaxRetryDelay),
                  host : HostOptions, debug : DebugOptions,
                  maskFields : MaskFieldOptions]
  /\ retryAttempts = OrDefault(options.retryAttempts, DefaultRetryAttempts)
  /\ retryDelay = OrDefault(options.retryDelay, DefaultRetryDelay)
  /\ host = HostOf(options.host)
  /\ debug = DebugOf(options.debug)
  /\ maskFields = MergeMaskFields(options.maskFields)
  /\ now = 0
  /\ activeLogs = {}
  /\ issued = << >>
  /\ endCalls = << >>
  /\ deliveries = << >>
  /\ requests = << >>
  /\ wrapped = << >>
  /\ finalized = << >>
  /\ heap = << >>
  /\ sanitized = << >>
  /\ peer \in {Alone, Paired}

config == <<options, retryAttempts, retryDelay, host, debug, maskFields>>

\* the body of start(endpoint, method): a fresh id, then activeLogs.set
StartSession(r, via) ==
  LET id == GenId(now, r)
      sid == Len(issued) + 1
  IN /\ activeLogs' = MapSet(activeLogs, id, [sid |-> sid, startTime |-> now])
     /\ issued' = Append(issued, [id |-> id, sid |-> sid, via |-> via])
     /\ peer' = Beside(
          MapSet(peer.activeLogs, id, [sid |-> sid, startTime |-> now]),
          peer.deliveries)

\* logger.start(...)
Start(r) ==
  /\ StartSession(r, "manual")
  /\ UNCHANGED <<config, now, endCalls, deliveries, requests, wrapped, finalized,
                 heap, sanitized>>

\* `if (this.debug) console.log('RekLog.end() options:', options)`
DebugEnd(dbg, h, opts) ==
  IF dbg THEN <<[text |-> "RekLog.end() options:", data |-> ValueOf(h, opts)]>>
  ELSE << >>

\* the body of end(logId, options) to the first await in a Tracker whose debug
\* flag is dbg, registry m and deliveries ds, the objects being as in h and
\* the options object given by the literal o that creates it
EndIn(dbg, m, ds, h, id, o, t) ==
  IF ~MapHas(m, id)
    THEN [sid |-> 0, activeLogs |-> m, deliveries |-> ds, heap |-> h,
          options |-> Undefined, console |-> << >>]
    ELSE LET log == MapGet(m, id)
             opts == Alloc(h, o)
             logData == EndLogData(opts.heap, log, opts.value, t)
         IN [sid |-> log.sid,
             activeLogs |-> RegistryAfterEnd(m, id),
             deliveries |-> Append(ds, NewDelivery(dbg, log.sid, "end", logData.value,
                                                   t, logData.heap)),
             heap |-> logData.heap,
             options |-> opts.value,
             console |-> DebugEnd(dbg, opts.heap, opts.value)]

\* the ids a caller of end can hold: those start returned, or any other value
EndIds == {issued[i].id : i \in {j \in DOMAIN issued : issued[j].via = "manual"}} \cup {BogusId}

\* logger.end(logId, options), the options object given by the literal o that
\* creates it: to the first await (and the same call on the second Tracker)
End(id, o) ==
  /\ Len(endCalls) < MaxEndCalls
  /\ \E mine \in {EndIn(debug, activeLogs, deliveries, heap, id, o, now)} :
     \E other \in {IF peer.followed
                     THEN EndIn(~debug, peer.activeLogs, peer.deliveries, mine.heap,
                                id, o, now)
                     ELSE mine} :
        /\ activeLogs' = mine.activeLogs
        /\ deliveries' = mine.deliveries
        /\ heap' = other.heap
        /\ peer' = Beside(other.activeLogs, other.deliveries)
        /\ endCalls' =
             IF mine.sid = 0
               THEN Append(endCalls, [id |-> id, sid |-> 0, delivery |-> 0,
                                      options |-> Undefined,
                                      given |-> Undefined,
                                      console |-> << >>,
                                      state |-> NotFoundOutcome])
               ELSE ResumeEnds(
                      Append(endCalls, [id |-> id, sid |-> mine.sid,
                                        delivery |-> Len(deliveries) + 1,
                                        options |-> mine.options,
                                        given |-> o,
                                        console |-> mine.console,
                                        state |-> "pending"]),
                      deliveries')
  /\ UNCHANGED <<config, now, issued, requests, wrapped, finalized, sanitized>>

\* the deliveries ds of a Tracker whose debug flag is dbg after the transport
\* call of attempt k of record i has settled, if that call is outstanding
FetchSettled(dbg, ds, i, k, outcome, t) ==
  IF i \in DOMAIN ds /\ k \in DOMAIN ds[i].fetches /\ ds[i].fetches[k] = "pending"
    THEN [ds EXCEPT ![i] = Settle(dbg, [ds[i] EXCEPT !.fetches[k] = "settled"], k, outcome, t)]
    ELSE ds

\* after the timeout callback of attempt k of record i has run, if it is pending
TimedOut(dbg, ds, i, k, t) ==
  IF i \in DOMAIN ds /\ k \in DOMAIN ds[i].timers /\ ~ds[i].timers[k].fired
    THEN [ds EXCEPT ![i] = Settle(dbg, [ds[i] EXCEPT !.timers[k].fired = TRUE], k,
                                  TimeoutSettlement, t)]
    ELSE ds

\* after the backoff callback of record i has run, if the record is waiting
Reissued(dbg, ds, i, t, h) ==
  IF i \in DOMAIN ds /\ ds[i].phase = "backoff"
    THEN [ds EXCEPT ![i] = IssueAttempt(dbg, [ds[i] EXCEPT !.attempt = @ + 1,
                                                           !.backoffAt = -1], t, h)]
    ELSE ds

\* the transport call of attempt k settles: ok, a non-success status, or an error
FetchSettle(i, k, outcome) ==
  /\ deliveries[i].fetches[k] = "pending"
  /\ deliveries' = FetchSettled(debug, deliveries, i, k, outcome, now)
  /\ peer' = Beside(peer.activeLogs, FetchSettled(~debug, peer.deliveries, i, k, outcome, now))
  /\ endCalls' = ResumeEnds(endCalls, deliveries')
  /\ UNCHANGED <<config, now, activeLogs, issued, requests, wrapped, finalized,
                 heap, sanitized>>

\* the setTimeout(..., 5000) callback of attempt k runs
TimeoutFires(i, k) ==
  /\ ~deliveries[i].timers[k].fired
  /\ deliveries' = TimedOut(debug, deliveries, i, k, now)
  /\ peer' = Beside(peer.activeLogs, TimedOut(~debug, peer.deliveries, i, k, now))
  /\ endCalls' = ResumeEnds(endCalls, deliveries')
  /\ UNCHANGED <<config, now, activeLogs, issued, requests, wrapped, finalized,
                 heap, sanitized>>

\* the backoff setTimeout callback runs: `return this.sendLog(logData, attempt + 1)`
BackoffFires(i) ==
  /\ deliveries[i].phase = "backoff"
  /\ deliveries' = Reissued(debug, deliveries, i, now, heap)
  /\ peer' = Beside(peer.activeLogs, Reissued(~debug, peer.deliveries, i, now, heap))
  /\ UNCHANGED <<config, now, activeLogs, issued, endCalls, requests, wrapped,
                 finalized, heap, sanitized>>

\* pending timer deadlines
Deadlines ==
  UNION {{deliveries[i].timers[k].deadline :
            k \in {j \in DOMAIN deliveries[i].timers : ~deliveries[i].timers[j].fired}}
           \cup (IF deliveries[i].phase = "backoff" THEN {deliveries[i].backoffAt} ELSE {}) :
         i \in DOMAIN deliveries}

\* the clock moves to the next timer deadline
AdvanceTime ==
  /\ Deadlines # {}
  /\ \A t \in Deadlines : t > now
  /\ now' = CHOOSE t \in Deadlines : \A u \in Deadlines : t <= u
  /\ UNCHANGED <<config, activeLogs, issued, endCalls, deliveries, requests, wrapped,
                 finalized, heap, sanitized, peer>>

\* a request enters the middleware, its request object given by the literal
\* that creates it: start(req.path, req.method), res.send replaced
MiddlewareEnter(r, request) ==
  /\ StartSession(r, "middleware")
  /\ LET req == Alloc(heap, request)
     IN /\ heap' = req.heap
        /\ requests' = Append(requests, [logId |-> GenId(now, r), sid |-> Len(issued) + 1,
                                         startTime |-> now, req |-> req.value])
  /\ UNCHANGED <<config, now, endCalls, deliveries, wrapped, finalized, sanitized>>

\* the body of the res.send wrapper of request entry req in a Tracker whose
\* debug flag is dbg, registry m and deliveries ds, the objects being as in h
\* and data given by the literal that creates it
SendIn(dbg, m, ds, h, req, payload, t) ==
  LET data == Alloc(h, payload)
      response == ParseResponse(data.heap, data.value)
      logData == SendLogData(response.heap, req.req, req.startTime, response.value, t)
  IN [activeLogs |-> RegistryAfterSend(m, req.logId),
      deliveries |-> Append(ds, NewDelivery(dbg, req.sid, "middleware", logData.value,
                                            t, logData.heap)),
      heap |-> logData.heap,
      data |-> data.value,
      response |-> response.value]

\* the res.send wrapper of request q, invoked by the framework as res.send(data),
\* data given by the literal that creates it (and the same on the second
\* Tracker)
ResSend(q, payload) ==
  /\ \E mine \in {SendIn(debug, activeLogs, deliveries, heap, requests[q], payload, now)} :
     \E other \in {IF peer.followed
                     THEN SendIn(~debug, peer.activeLogs, peer.deliveries, mine.heap,
                                 requests[q], payload, now)
                     ELSE mine} :
     LET req == requests[q]
         self == q
     IN /\ deliveries' = mine.deliveries
        /\ heap' = other.heap
        /\ activeLogs' = mine.activeLogs
        /\ peer' = Beside(other.activeLogs, other.deliveries)
        /\ wrapped' = Append(wrapped, [req |-> q, this |-> self, data |-> mine.data,
                                       request |-> ValueOf(heap, req.req),
                                       payload |-> payload,
                                       delivery |-> Len(deliveries) + 1])
        /\ finalized' = CallOriginal(finalized, OriginalArgs(self, mine.data, mine.response))
  /\ UNCHANGED <<config, now, issued, endCalls, requests, sanitized>>

\* the objects reachable from the references in `frontier`
RECURSIVE Reach(_, _, _)
Reach(h, frontier, seen) ==
  IF frontier \subseteq seen THEN seen
  ELSE LET a == CHOOSE x \in frontier \ seen : TRUE
           members == IF h[a].type = "array"
                        THEN {h[a].items[i] : i \in DOMAIN h[a].items}
                        ELSE {h[a].fields[k] : k \in DOMAIN h[a].fields}
       IN Reach(h, (frontier \cup {v.addr : v \in {m \in members : IsObject(m)}}) \ {a},
                seen \cup {a})

\* the values the caller and the framework passed in and still hold
CallerValues ==
  {endCalls[c].options : c \in DOMAIN endCalls}
    \cup {requests[q].req : q \in DOMAIN requests}
    \cup {wrapped[w].data : w \in DOMAIN wrapped}

\* the objects the caller and the framework can still write to
CallerObjects == Reach(heap, {v.addr : v \in {x \in CallerValues : IsObject(x)}}, {})

\* the value a caller's write stores
Changed == Str("changed")

\* the members written by the caller so far
Written ==
  {<<a, k>> \in UNION {{a} \X DOMAIN heap[a].fields :
                         a \in {c \in DOMAIN heap : heap[c].type = "object"}} :
     heap[a].fields[k] = Changed}

\* application code between two turns of the tracker: `o[key] = ...` on a member
\* of an object a that it passed in (`headers` stands for what req.get reads,
\* which is not a member the application assigns)
CallerWrites(a, key) ==
  /\ heap[a].type = "object"
  /\ key \in DOMAIN heap[a].fields \ {"headers"}
  /\ heap[a].fields[key] # Changed
  /\ heap' = Store(heap, a, key, Changed)
  /\ UNCHANGED <<config, now, activeLogs, issued, endCalls, deliveries, requests,
                 wrapped, finalized, sanitized, peer>>

\* logger.maskSensitiveData(x), x given by the literal that creates it
Sanitize(x) ==
  /\ Len(sanitized) < MaxSanitized
  /\ Cardinality({c \in DOMAIN sanitized : sanitized[c].fresh}) < MaxInputs
  /\ LET data == Alloc(heap, x)
         masked == maskSensitiveData(data.heap, data.value)
     IN /\ heap' = masked.heap
        /\ sanitized' = Append(sanitized, [fresh |-> TRUE, input |-> data.value,
                                           before |-> data.heap, output |-> masked.value,
                                           after |-> masked.heap])
  /\ UNCHANGED <<config, now, activeLogs, issued, endCalls, deliveries, requests,
                 wrapped, finalized, peer>>

\* logger.maskSensitiveData(y), y the value an earlier call returned
Resanitize(c) ==
  /\ Len(sanitized) < MaxSanitized
  /\ LET masked == maskSensitiveData(heap, sanitized[c].output)
     IN /\ heap' = masked.heap
        /\ sanitized' = Append(sanitized, [fresh |-> FALSE, input |-> sanitized[c].output,
                                           before |-> heap, output |-> masked.value,
                                           after |-> masked.heap])
  /\ UNCHANGED <<config, now, activeLogs, issued, endCalls, deliveries, requests,
                 wrapped, finalized, peer>>

\* the calls made on a Tracker on which at most maxStarts sessions are started
\* and at most maxRecords Log Records are built, the caller passing one of
\* `outcomes` to end and the framework handling one of `reqs` and sending one
\* of `payloads`
Calls(maxStarts, maxRecords, outcomes, reqs, payloads) ==
  \/ Len(issued) < maxStarts /\ \E r \in 1..RandomSuffixes : Start(r)
  \/ \E id \in EndIds : \E o \in outcomes : End(id, o) /\ Len(deliveries') <= maxRecords
  \/ Len(issued) < maxStarts /\ \E r \in 1..RandomSuffixes : \E request \in reqs :
       MiddlewareEnter(r, request)
  \/ Len(deliveries) < maxRecords /\ \E q \in DOMAIN requests : \E data \in payloads :
       ResSend(q, data)

\* a transport call settles
Settles ==
  \E i \in DOMAIN deliveries : \E k \in DOMAIN deliveries[i].fetches :
    \E outcome \in {"ok", "bad", "error"} : FetchSettle(i, k, outcome)

\* a timer callback runs: when its deadline has come if `timed`, at any moment
\* (and so in any order) if not
Timers(timed) ==
  \/ \E i \in DOMAIN deliveries : \E k \in DOMAIN deliveries[i].timers :
       /\ timed => deliveries[i].timers[k].deadline <= now
       /\ TimeoutFires(i, k)
  \/ \E i \in DOMAIN deliveries :
       /\ timed => deliveries[i].backoffAt <= now
       /\ BackoffFires(i)

\* the options object of an end call that reports nothing
NoOutcome == Obj(<< >>)

\* a Tracker constructed without host, debug and maskFields, on its own
Quiet == options.debug = << >> /\ peer = Alone
PlainSetup == options.host = << >> /\ options.maskFields = << >> /\ Quiet

\* several sessions and records at once, under a retry ceiling of at most
\* SharedCeiling; the clock is abstracted: it stays at one instant and timers
\* fire in any order, which includes every order the clock allows (so the base
\* delay, on which no step depends here, is the default or a supplied 1)
InitShared == Init /\ retryAttempts <= SharedCeiling /\ PlainSetup
                   /\ options.retryDelay \in {<< >>, <<MaxRetryDelay>>}
Next == Calls(MaxStarts, MaxRecords, {NoOutcome}, {PlainReq}, SharedPayloads)
          \/ Settles \/ Timers(FALSE)
Spec == InitShared /\ [][Next]_vars

\* one record at a time, under every retry configuration, with the clock
InitDelivery == Init /\ PlainSetup
NextDelivery == Calls(SoloStarts, SoloStarts, {NoOutcome}, {PlainReq}, Payloads)
                  \/ Settles \/ Timers(TRUE) \/ AdvanceTime
SpecDelivery == InitDelivery /\ [][NextDelivery]_vars

\* the same, the event loop running every timer callback that is due and time
\* passing while a timer is pending; a transport call need never settle
TimersFire == WF_vars(Timers(TRUE)) /\ WF_vars(AdvanceTime)
SpecTimers == InitDelivery /\ [][NextDelivery]_vars /\ TimersFire

\* one record at a time on a Tracker constructed with any debug option, and
\* the same calls, made at the same times with the same ids, on a Tracker that
\* differs in the debug flag alone; every transport call of the one settles
\* when and as the corresponding call of the other does
DebugOutcomes ==
  {NoOutcome, Obj([response |-> Obj([id |-> Num("1")]), metadata |-> Obj([note |-> Str("n")])])}
InitDebug == Init /\ options.host = << >> /\ options.maskFields = << >> /\ peer = Paired
NextDebug == Calls(SoloStarts, SoloStarts, DebugOutcomes, {PlainReq}, Payloads)
               \/ Settles \/ Timers(TRUE) \/ AdvanceTime
SpecDebug == InitDebug /\ [][NextDebug]_vars

\* the values the sanitizer is called on: scalars, objects of up to two members
\* under keys that are, resemble or are not rule names, such objects nested in
\* objects and arrays, and the example of the documentation
Scalars == {Undefined, Null, Str(""), Str("x"), Num("0"), Num("1")}
Keys == {"password", "Password", "PASSWORD", "oldPassword", "PIN", "email"}
FlatObjects ==
  {Obj(f) : f \in UNION {[K -> {Str("x"), Null}] :
                           K \in {S \in SUBSET Keys : Cardinality(S) <= 2}}}
DocExample ==
  Obj([email |-> Str("a@b.com"), password |-> Str("x"),
       profile |-> Obj([pin |-> Str("1234")])])
CaseExample ==
  Obj([password |-> Str("a"), Password |-> Str("b"), PASSWORD |-> Str("c"),
       oldPassword |-> Str("d"), PIN |-> Str("e"), Pin |-> Str("f"), email |-> Str("g")])
SanitizerInputs ==
  Scalars \cup FlatObjects \cup {DocExample, CaseExample}
    \cup {Obj([profile |-> f, email |-> Str("a@b.com")]) : f \in FlatObjects}
    \cup {Obj([password |-> f]) : f \in FlatObjects}
    \cup {Arr(<<f, Str("x"), Arr(<<f>>)>>) : f \in FlatObjects}
    \cup {Obj([list |-> Arr(<<Obj([data |-> f]), Null>>)]) : f \in FlatObjects}
    \cup {Arr(<< >>), Arr(<<Undefined, Num("1")>>)}

\* the sanitizer alone, under every rule set, next to a session in the registry
InitSanitizer == Init /\ options.retryAttempts = << >> /\ options.retryDelay = << >>
                      /\ options.host = << >> /\ Quiet
NextSanitizer ==
  \/ Len(issued) < SoloStarts /\ \E r \in 1..RandomSuffixes : Start(r)
  \/ \E x \in SanitizerInputs : Sanitize(x)
  \/ \E c \in DOMAIN sanitized : Resanitize(c)
SpecSanitizer == InitSanitizer /\ [][NextSanitizer]_vars

\* what the caller reports to end: sensitive values of several types under
\* rule keys at several depths of body, params, requestHeaders and response
Secrets == {Str("s1"), Obj([digits |-> Str("s2")])}
Outcomes ==
  {NoOutcome, Obj([metadata |-> Obj([note |-> Str("n")])])}
    \cup {Obj([body |-> Obj([Password |-> s, user |-> Str("u")]),
               response |-> Arr(<<Obj([profile |-> Obj([token |-> s])])>>),
               metadata |-> Obj([note |-> Str("n")])]) : s \in Secrets}
    \cup {Obj([params |-> Obj([PIN |-> s]),
               requestHeaders |-> Obj([Authorization |-> s, accept |-> Str("*")])]) :
            s \in Secrets}

\* the requests the framework handles and the payloads it sends
Reqs ==
  {PlainReq, Req(Undefined, Undefined, Obj([id |-> Str("7")]), Undefined)}
    \cup {Req(Obj([login |-> Obj([password |-> s])]), Obj([PIN |-> s]),
              Obj([id |-> Str("7")]), Str("example.com")) : s \in Secrets}
RecordPayloads ==
  {Str("{\"token\":\"t\"}"), Str("{\"token\":\"u\"}"),
   Obj([Token |-> Str("t")]), Obj([Token |-> Str("u")])}

\* one record with data in it, under every host and rule set, the caller
\* writing to its objects while delivery is in progress; timers fire in any
\* order
InitRecord == Init /\ options.retryAttempts = <<2>> /\ options.retryDelay = <<1>>
                   /\ options.maskFields \in {<< >>, <<{"PIN"}>>} /\ Quiet
NextRecord ==
  \/ Calls(SoloStarts, SoloStarts, Outcomes, Reqs, RecordPayloads)
  \/ Settles
  \/ Timers(FALSE)
  \/ Cardinality(Written) < MaxWrites /\ \E a \in CallerObjects :
       \E key \in (IF heap[a].type = "object" THEN DOMAIN heap[a].fields ELSE {}) :
         CallerWrites(a, key)
SpecRecord == InitRecord /\ [][NextRecord]_vars

\* ------------------------------------------------------------------------
\* properties
\* ------------------------------------------------------------------------
Terminal(d) == d.phase \in {"sent", "dropped"}

EndsOf(sid) == {c \in DOMAIN endCalls : endCalls[c].delivery # 0 /\ endCalls[c].sid = sid}
EndRecordsOf(sid) ==
  {i \in DOMAIN deliveries : deliveries[i].via = "end" /\ deliveries[i].sid = sid}

\* C1: every session is retrieved by at most one end call and at most one Log
\* Record is built for it by end; once an end call has retrieved it, it is no
\* longer in the registry, so every later end finds it absent.
C1_AtMostOneConsumer ==
  \A sid \in 1..Len(issued) :
    /\ Cardinality(EndsOf(sid)) <= 1
    /\ Cardinality(EndRecordsOf(sid)) = Cardinality(EndsOf(sid))
    /\ (EndsOf(sid) # {} => \A e \in activeLogs : e.sid # sid)

\* two end calls for one sessionId, the second issued while the first is still
\* awaiting delivery: the first retrieved the session, the second found nothing
C1_Witness ==
  \E c1, c2 \in DOMAIN endCalls :
    /\ c1 < c2
    /\ endCalls[c1].id = endCalls[c2].id
    /\ endCalls[c1].delivery # 0
    /\ endCalls[c1].state = "pending"
    /\ endCalls[c2].delivery = 0

\* C2: an end call whose sessionId is not in the registry builds no Log Record,
\* issues no transport call, leaves the registry unchanged and returns a promise
\* that is resolved, not rejected.
C2_UnknownEndIsNoOp ==
  [][(/\ Len(endCalls') = Len(endCalls) + 1
      /\ ~MapHas(activeLogs, endCalls'[Len(endCalls')].id))
     => /\ deliveries' = deliveries
        /\ activeLogs' = activeLogs
        /\ endCalls'[Len(endCalls')].delivery = 0
        /\ endCalls'[Len(endCalls')].state = "resolved"
        /\ SubSeq(endCalls', 1, Len(endCalls)) = endCalls
        /\ UNCHANGED <<issued, requests, wrapped, finalized>>]_vars

\* an end call for an already consumed sessionId has returned, with the session
\* of another start still in the registry
C2_Witness ==
  /\ activeLogs # {}
  /\ \E c1, c2 \in DOMAIN endCalls :
       /\ c1 < c2
       /\ endCalls[c1].id = endCalls[c2].id
       /\ endCalls[c1].delivery # 0
       /\ endCalls[c2].delivery = 0
       /\ endCalls[c2].state = "resolved"

\* C3: the pipeline never makes more than retryAttempts transport calls for a
\* record; the wait after failed attempt k is retryDelay * k and attempt k+1 is
\* not issued before it has elapsed; a record whose attempts all failed was
\* sent exactly retryAttempts times, with retryAttempts - 1 waits, and is dropped
\* with one error logged.
C3_RetriesThenDrop ==
  \A i \in DOMAIN deliveries :
    LET d == deliveries[i]
    IN /\ Len(d.fetches) <= retryAttempts
       /\ Len(d.fetches) = d.attempt
       /\ d.waits = [k \in 1..Len(d.waits) |-> retryDelay * k]
       /\ \A k \in 1..(Len(d.startedAt) - 1) :
            d.startedAt[k + 1] >= d.failedAt[k] + retryDelay * k
       /\ (d.phase = "dropped" =>
             /\ Len(d.fetches) = retryAttempts
             /\ Len(d.failedAt) = retryAttempts
             /\ Len(d.waits) = retryAttempts - 1
             /\ d.errors = 1)

\* a record dropped after at least three failed attempts
C3_Witness ==
  \E i \in DOMAIN deliveries :
    /\ deliveries[i].phase = "dropped"
    /\ retryAttempts >= 3
    /\ Len(deliveries[i].waits) >= 2

\* C4: once an attempt of a record has succeeded, the record stays delivered:
\* no further transport call is issued for it, no backoff wait is started and
\* no failure is logged, whatever fires or settles afterwards.
C4_SuccessEndsRetries ==
  [][\A i \in DOMAIN deliveries :
       deliveries[i].phase = "sent" =>
         /\ deliveries[i].promise = "resolved"
         /\ deliveries'[i].phase = "sent"
         /\ deliveries'[i].promise = "resolved"
         /\ Len(deliveries'[i].fetches) = Len(deliveries[i].fetches)
         /\ deliveries'[i].waits = deliveries[i].waits
         /\ deliveries'[i].backoffAt = -1
         /\ deliveries'[i].warns = deliveries[i].warns
         /\ deliveries'[i].errors = 0]_vars

\* a retry succeeded and the timeout timer of the successful attempt has fired
\* afterwards
C4_Witness ==
  \E i \in DOMAIN deliveries :
    LET d == deliveries[i]
    IN /\ d.phase = "sent"
       /\ d.attempt >= 2
       /\ d.timers[d.attempt].fired

\* the step in which the timeout of the attempt in flight expires before its
\* transport call has settled
TimeoutStep(i) ==
  /\ deliveries[i].phase = "inflight"
  /\ ~deliveries[i].timers[deliveries[i].attempt].fired
  /\ deliveries'[i].timers[deliveries[i].attempt].fired

\* the step in which the transport call of the attempt in flight fails
FetchFailStep(i) ==
  /\ deliveries[i].phase = "inflight"
  /\ deliveries[i].fetches[deliveries[i].attempt] = "pending"
  /\ deliveries'[i].fetches[deliveries[i].attempt] = "settled"
  /\ deliveries'[i].phase # "sent"

\* the failure of the attempt in flight is counted and followed by the backoff
\* and retry, or by the drop
FailureHandled(i) ==
  LET d == deliveries[i]
      e == deliveries'[i]
  IN /\ e.attempt = d.attempt
     /\ Len(e.fetches) = Len(d.fetches)
     /\ e.failedAt = Append(d.failedAt, now)
     /\ IF d.attempt < retryAttempts
          THEN /\ e.phase = "backoff"
               /\ e.waits = Append(d.waits, retryDelay * d.attempt)
               /\ e.backoffAt = now + retryDelay * d.attempt
               /\ e.warns = d.warns + 1
               /\ e.errors = d.errors
               /\ e.promise = "pending"
          ELSE /\ e.phase = "dropped"
               /\ e.waits = d.waits
               /\ e.warns = d.warns
               /\ e.errors = d.errors + 1
               /\ e.promise = "resolved"

\* C5: the timeout of an attempt expires 5000 ms after the attempt was issued,
\* and an attempt whose transport call has not settled by then is handled as a
\* failed transport call is: one failed attempt, then backoff and retry below
\* the ceiling, the drop at the ceiling.
C5_TimeoutIsFailure ==
  [][\A i \in DOMAIN deliveries :
       /\ TimeoutStep(i) =>
            /\ now >= deliveries[i].startedAt[deliveries[i].attempt] + 5000
            /\ FailureHandled(i)
       /\ FetchFailStep(i) => FailureHandled(i)]_vars

\* the first attempt timed out and was retried, and the last allowed attempt
\* timed out as well: its transport call is still unsettled, the record dropped
C5_Witness ==
  \E i \in DOMAIN deliveries :
    LET d == deliveries[i]
    IN /\ d.attempt >= 2
       /\ d.fetches[1] = "pending"
       /\ d.timers[1].fired
       /\ d.phase = "dropped"
       /\ d.fetches[d.attempt] = "pending"

\* C6: the promise of sendLog is never rejected, and is resolved once delivery
\* has ended either way; the promise of end is never rejected; every invocation
\* of the res.send wrapper ran to its end.
C6_FailuresAbsorbed ==
  /\ \A i \in DOMAIN deliveries :
       /\ deliveries[i].promise \in {"pending", "resolved"}
       /\ (Terminal(deliveries[i]) => deliveries[i].promise = "resolved")
  /\ \A c \in DOMAIN endCalls : endCalls[c].state \in {"pending", "resolved"}
  /\ Len(finalized) = Len(wrapped)

\* every attempt of a record failed, one of them by timeout, and the end call
\* that awaited it has resolved
C6_Witness ==
  \E c \in DOMAIN endCalls :
    /\ endCalls[c].delivery # 0
    /\ endCalls[c].state = "resolved"
    /\ LET d == deliveries[endCalls[c].delivery]
       IN /\ d.phase = "dropped"
          /\ d.attempt >= 2
          /\ \E k \in DOMAIN d.fetches : d.fetches[k] = "pending"
          /\ \E k \in DOMAIN d.fetches : d.fetches[k] = "settled"

\* C7: the promise end returned for a known session is pending as long as an
\* attempt or a backoff wait of its record is pending, and is settled only when
\* delivery has ended.
C7_EndAwaitsDelivery ==
  \A c \in DOMAIN endCalls :
    endCalls[c].delivery # 0 =>
      LET d == deliveries[endCalls[c].delivery]
      IN /\ (endCalls[c].state # "pending" => Terminal(d))
         /\ (d.phase \in {"inflight", "backoff"} => endCalls[c].state = "pending")

\* an end call resolved after a failed attempt, a backoff wait and a retry
C7_Witness ==
  \E c \in DOMAIN endCalls :
    /\ endCalls[c].delivery # 0
    /\ endCalls[c].state = "resolved"
    /\ Len(deliveries[endCalls[c].delivery].waits) >= 1

\* C8: the step in which the res.send wrapper runs is the step in which the
\* original res.send is invoked, and at that point the first delivery attempt
\* of the record has just been issued: nothing of it has settled.
C8_FinalizeWithoutWaiting ==
  [][Len(wrapped') > Len(wrapped) =>
       /\ Len(wrapped') = Len(wrapped) + 1
       /\ Len(finalized') = Len(finalized) + 1
       /\ Len(finalized') = Len(wrapped')
       /\ LET d == deliveries'[wrapped'[Len(wrapped')].delivery]
          IN /\ wrapped'[Len(wrapped')].delivery = Len(deliveries')
             /\ Len(deliveries') = Len(deliveries) + 1
             /\ d.phase = "inflight"
             /\ d.attempt = 1
             /\ d.fetches = <<"pending">>
             /\ d.failedAt = << >>
             /\ d.promise = "pending"]_vars

\* the response was finalized and the delivery of its record is in a backoff
\* wait after a failed attempt
C8_Witness ==
  \E w \in DOMAIN wrapped :
    /\ w \in DOMAIN finalized
    /\ deliveries[wrapped[w].delivery].phase = "backoff"

\* C9: the original res.send is invoked exactly once per invocation of the
\* wrapper, on the response object the wrapper was invoked on and with the
\* payload the wrapper was given.
C9_TransparentFinalize ==
  /\ Len(finalized) = Len(wrapped)
  /\ \A w \in DOMAIN wrapped :
       /\ w \in DOMAIN finalized
       /\ finalized[w].this = wrapped[w].this
       /\ finalized[w].data = wrapped[w].data

\* a JSON text was sent: the record holds its parsed and masked form, the
\* original res.send got the text
C9_Witness ==
  \E w \in DOMAIN wrapped :
    /\ wrapped[w].data = Str("{\"token\":\"t\"}")
    /\ w \in DOMAIN finalized
    /\ finalized[w].data = Str("{\"token\":\"t\"}")
    /\ deliveries[wrapped[w].delivery].payloads[1].response = Obj([token |-> Str("********")])

\* only the middleware has started sessions
MiddlewareOnly == \A s \in DOMAIN issued : issued[s].via = "middleware"

\* the requests whose res.send wrapper has run
FinalizedRequests == {wrapped[w].req : w \in DOMAIN wrapped}

\* C10: once the res.send wrapper of a request has run, the registry holds no
\* entry of that request, and with middleware-only use the registry holds
\* exactly the sessions of the requests that entered and are not yet finalized.
C10_RegistryTracksRequests ==
  /\ \A q \in FinalizedRequests : \A e \in activeLogs : e.sid # requests[q].sid
  /\ (MiddlewareOnly =>
        {e.sid : e \in activeLogs} =
          {requests[q].sid : q \in DOMAIN requests \ FinalizedRequests})

\* ---- the sanitizer ----
\* in the history: endCalls[c].given is the value of the options object when
\* end was called, wrapped[w].request and wrapped[w].payload the values of the
\* request object and of the payload when the wrapper ran
\* the value direct call c of maskSensitiveData was given, and the value it
\* returned
InputOf(c) == ValueOf(sanitized[c].before, sanitized[c].input)
OutputOf(c) == ValueOf(sanitized[c].after, sanitized[c].output)

\* the Mask Rule Set of the configuration: the built-in names and the caller's,
\* lower-cased
RuleSet ==
  {ToLowerCase(f) : f \in defaultMaskFields \cup
     (IF options.maskFields = << >> THEN {} ELSE options.maskFields[1])}

Marker == Str("********")

\* the reference sanitizer
RECURSIVE Reference(_)
Reference(x) ==
  IF x.type = "array" THEN Arr([i \in 1..Len(x.items) |-> Reference(x.items[i])])
  ELSE IF x.type = "object"
    THEN Obj([k \in DOMAIN x.fields |->
               IF ToLowerCase(k) \in RuleSet THEN Marker
               ELSE IF x.fields[k].type \in {"array", "object"} THEN Reference(x.fields[k])
               ELSE x.fields[k]])
  ELSE x

\* some key of x, at some depth, has a lower-cased name in the rule set
RECURSIVE HasRuleKey(_)
HasRuleKey(x) ==
  IF x.type = "array" THEN \E i \in DOMAIN x.items : HasRuleKey(x.items[i])
  ELSE IF x.type = "object"
    THEN \E k \in DOMAIN x.fields : ToLowerCase(k) \in RuleSet \/ HasRuleKey(x.fields[k])
  ELSE FALSE

\* C12: on every input, maskSensitiveData returns what the reference sanitizer
\* returns: a scalar, null or undefined unchanged; for a sequence the sequence of
\* the masked elements; for a key-value structure the same keys, the marker under
\* every rule key whatever its value, nested structures masked recursively and
\* every other value unchanged.
C12_EqualsReference ==
  \A c \in DOMAIN sanitized :
    /\ OutputOf(c) = Reference(InputOf(c))
    /\ (InputOf(c).type \notin {"array", "object"} => sanitized[c].output = sanitized[c].input)
    /\ (InputOf(c).type = "array" => Len(OutputOf(c).items) = Len(InputOf(c).items))
    /\ (InputOf(c).type = "object" => DOMAIN OutputOf(c).fields = DOMAIN InputOf(c).fields)

\* the example of the documentation was masked under a rule set with pin in it
C12_Witness ==
  \E c \in DOMAIN sanitized :
    /\ "pin" \in maskFields
    /\ InputOf(c) = DocExample
    /\ OutputOf(c) = Obj([email |-> Str("a@b.com"), password |-> Marker,
                          profile |-> Obj([pin |-> Marker])])

\* y is x with the marker under exactly the keys whose lower-cased name is in
\* the rule set
RECURSIVE RedactedExactly(_, _)
RedactedExactly(x, y) ==
  IF x.type = "array"
    THEN \A i \in DOMAIN x.items : RedactedExactly(x.items[i], y.items[i])
  ELSE IF x.type = "object"
    THEN \A k \in DOMAIN x.fields :
           IF ToLowerCase(k) \in RuleSet THEN y.fields[k] = Marker
           ELSE /\ y.fields[k] # Marker
                /\ RedactedExactly(x.fields[k], y.fields[k])
  ELSE TRUE

\* C13: the rule set in force is the lower-cased union of the built-in names and
\* the caller's maskFields, and a key is redacted if and only if its lower-cased
\* name is in it: whatever the letter case of the key or of the caller's field
\* name, and not when the key only contains a rule name.
C13_CaseInsensitiveExactMatch ==
  /\ maskFields = RuleSet
  /\ \A c \in DOMAIN sanitized : sanitized[c].fresh => RedactedExactly(InputOf(c), OutputOf(c))

\* the caller supplied PIN: password, Password, PASSWORD, PIN and Pin were
\* redacted, oldPassword was not
C13_Witness ==
  \E c \in DOMAIN sanitized :
    /\ options.maskFields = <<{"PIN"}>>
    /\ InputOf(c) = CaseExample
    /\ OutputOf(c) =
         Obj([password |-> Marker, Password |-> Marker, PASSWORD |-> Marker,
              oldPassword |-> Str("d"), PIN |-> Marker, Pin |-> Marker,
              email |-> Str("g")])

\* C14: masking the result of a call of maskSensitiveData gives a value equal
\* to that result.
C14_Idempotent ==
  \A c \in DOMAIN sanitized : ~sanitized[c].fresh => OutputOf(c) = InputOf(c)

\* a result with markers in it, one of them in place of a structure, was masked
\* again
C14_Witness ==
  \E c, d \in DOMAIN sanitized :
    /\ sanitized[c].fresh
    /\ InputOf(c) = Obj([password |-> Obj([email |-> Str("x"), PIN |-> Null])])
    /\ ~sanitized[d].fresh
    /\ sanitized[d].input = sanitized[c].output
    /\ OutputOf(d) = Obj([password |-> Marker])

\* C15: when no key of the input, at any depth, has a lower-cased name in the
\* rule set, the result is deeply equal to the input.
C15_NoRuleKeyNoChange ==
  \A c \in DOMAIN sanitized : ~HasRuleKey(InputOf(c)) => OutputOf(c) = InputOf(c)

\* a nested input with a key that contains a rule name, and no rule key, was
\* masked
C15_Witness ==
  \E c \in DOMAIN sanitized :
    /\ ~HasRuleKey(InputOf(c))
    /\ InputOf(c) = Obj([list |-> Arr(<<Obj([data |-> Obj([oldPassword |-> Str("x"),
                                                           email |-> Null])]), Null>>)])
    /\ sanitized[c].output # sanitized[c].input

\* C16: a call of maskSensitiveData leaves every object and array that existed
\* before it as it was, so the value the caller passed is unchanged at every
\* depth, and leaves the rule set and the registry unchanged.
C16_InputNotMutated ==
  [][Len(sanitized') > Len(sanitized) =>
       LET call == sanitized'[Len(sanitized')]
       IN /\ \A a \in DOMAIN call.before : heap'[a] = call.before[a]
          /\ \A a \in DOMAIN heap : heap'[a] = heap[a]
          /\ ValueOf(heap', call.input) = ValueOf(call.before, call.input)
          /\ maskFields' = maskFields
          /\ activeLogs' = activeLogs]_vars

\* a value with rule keys at two depths was masked while a session was in the
\* registry: the result has the markers, the value passed has not
C16_Witness ==
  \E c \in DOMAIN sanitized :
    /\ activeLogs # {}
    /\ InputOf(c) = Obj([profile |-> Obj([password |-> Str("x")]), email |-> Str("a@b.com")])
    /\ ValueOf(heap, sanitized[c].input) = InputOf(c)
    /\ OutputOf(c) = Obj([profile |-> Obj([password |-> Marker]), email |-> Str("a@b.com")])

\* ---- the Log Record ----
\* the fields of a record that pass through the sanitizer
SanitizedFields == {"body", "params", "requestHeaders", "response"}
Sanitized(payload) == [f \in SanitizedFields |-> payload[f]]

\* x and y differ at most in the values under rule keys
RECURSIVE SameButSecrets(_, _)
SameButSecrets(x, y) ==
  IF x.type = "array"
    THEN /\ y.type = "array"
         /\ Len(y.items) = Len(x.items)
         /\ \A i \in DOMAIN x.items : SameButSecrets(x.items[i], y.items[i])
  ELSE IF x.type = "object"
    THEN /\ y.type = "object"
         /\ DOMAIN y.fields = DOMAIN x.fields
         /\ \A k \in DOMAIN x.fields :
              ToLowerCase(k) \in RuleSet \/ SameButSecrets(x.fields[k], y.fields[k])
  ELSE x = y

\* x with one fixed value under every rule key: the same for all values that
\* differ at most in the values under rule keys
RECURSIVE Erase(_)
Erase(x) ==
  IF x.type = "array" THEN Arr([i \in 1..Len(x.items) |-> Erase(x.items[i])])
  ELSE IF x.type = "object"
    THEN Obj([k \in DOMAIN x.fields |->
               IF ToLowerCase(k) \in RuleSet THEN Str("erased") ELSE Erase(x.fields[k])])
  ELSE x

\* an object with the values under rule keys erased inside the members `among`
EraseIn(x, among) ==
  Obj([k \in DOMAIN x.fields |-> IF k \in among THEN Erase(x.fields[k]) ELSE x.fields[k]])

\* what a payload sent by the framework is read as
Interpreted(payload) ==
  IF payload.type = "string" /\ payload.v \in JSONTexts THEN JSONParse(payload.v) ELSE payload

\* every value under a rule key of x, at any depth, is the marker
RECURSIVE AllRedacted(_)
AllRedacted(x) ==
  IF x.type = "array" THEN \A i \in DOMAIN x.items : AllRedacted(x.items[i])
  ELSE IF x.type = "object"
    THEN \A k \in DOMAIN x.fields :
           IF ToLowerCase(k) \in RuleSet THEN x.fields[k] = Marker
           ELSE AllRedacted(x.fields[k])
  ELSE TRUE

\* the first payload of the run in which end is given `outcome`, the response
\* time being rt
EndPayloadOf(outcome, rt) ==
  LET opts == Alloc(<< >>, outcome)
      logData == EndLogData(opts.heap, [startTime |-> 0], opts.value, rt)
  IN Payload(logData.heap, logData.value)

\* the first payload of the run in which the wrapper finds the request object
\* `request` and is given `payload`, the response time being rt
SendPayloadOf(request, payload, rt) ==
  LET req == Alloc(<< >>, request)
      data == Alloc(req.heap, payload)
      response == ParseResponse(data.heap, data.value)
      logData == SendLogData(response.heap, req.value, 0, response.value, rt)
  IN Payload(logData.heap, logData.value)

\* C11: the payload of every transport call of a record is the payload of the
\* run that differs only in the values under rule keys inside body, params,
\* requestHeaders or response (query and payload, for the middleware), with the
\* marker under every rule key of these fields: for the first call the whole
\* payload, for a retry the sanitized fields.
C11_SecretsNeverSent ==
  /\ \A c \in DOMAIN endCalls :
       endCalls[c].delivery # 0 =>
         LET d == deliveries[endCalls[c].delivery]
             twin == EndPayloadOf(EraseIn(endCalls[c].given, SanitizedFields),
                                  d.logData.responseTime)
         IN /\ d.payloads[1] = twin
            /\ \A k \in DOMAIN d.payloads :
                 /\ Sanitized(d.payloads[k]) = Sanitized(twin)
                 /\ \A f \in SanitizedFields : AllRedacted(d.payloads[k][f])
  /\ \A w \in DOMAIN wrapped :
       LET d == deliveries[wrapped[w].delivery]
       IN \A other \in RecordPayloads :
            SameButSecrets(Interpreted(wrapped[w].payload), Interpreted(other)) =>
              LET twin == SendPayloadOf(EraseIn(wrapped[w].request, {"body", "query"}),
                                        other, d.logData.responseTime)
              IN /\ d.payloads[1] = twin
                 /\ \A k \in DOMAIN d.payloads :
                      /\ Sanitized(d.payloads[k]) = Sanitized(twin)
                      /\ \A f \in SanitizedFields : AllRedacted(d.payloads[k][f])

\* end was given a structure under Password in the body and under token inside
\* the response; the record was sent twice, each time with the markers
C11_Witness ==
  \E c \in DOMAIN endCalls :
    /\ endCalls[c].delivery # 0
    /\ "body" \in DOMAIN endCalls[c].given.fields
    /\ endCalls[c].given.fields["body"].fields["Password"] = Obj([digits |-> Str("s2")])
    /\ LET d == deliveries[endCalls[c].delivery]
       IN /\ Len(d.payloads) = 2
          /\ \A k \in 1..2 :
               /\ d.payloads[k].body = Obj([Password |-> Marker, user |-> Str("u")])
               /\ d.payloads[k].response =
                    Arr(<<Obj([profile |-> Obj([token |-> Marker])])>>)

\* C17: the sessionIds start has returned are pairwise different, so no start
\* replaced the registry entry of an earlier one: every session not yet consumed
\* by end or by the res.send wrapper is in the registry.
C17_FreshSessionIds ==
  /\ \A i, j \in DOMAIN issued : i # j => issued[i].id # issued[j].id
  /\ (deliveries = << >> /\ endCalls = << >> =>
        \A i \in DOMAIN issued : \E e \in activeLogs : e.sid = issued[i].sid)

\* C18: every transport call made for a record carries the payload of its first
\* transport call, which is the record as constructed.
C18_RecordImmutable ==
  \A i \in DOMAIN deliveries :
    \A k \in DOMAIN deliveries[i].payloads :
      deliveries[i].payloads[k] = deliveries[i].payloads[1]

\* the Host header the wrapper found on the request, null when it had none
RequestHost(w) ==
  LET headers == wrapped[w].request.fields["headers"].fields
  IN IF "host" \in DOMAIN headers THEN OrNull(headers["host"]) ELSE Null

\* the host of the configuration: null when none, or an empty one, was given
ConfiguredHost ==
  IF options.host = << >> THEN Null
  ELSE IF options.host[1] = "" THEN Null ELSE Str(options.host[1])

\* C19 as stated: every payload of every record, built by end or by the
\* middleware, carries the host of the configuration, null when none was
\* configured.
C19_HostFromConfiguration ==
  \A i \in DOMAIN deliveries :
    \A k \in DOMAIN deliveries[i].payloads :
      deliveries[i].payloads[k].host = ConfiguredHost

\* C19 as amended: every payload of a record carries the host of the
\* configuration when one is configured; when none is, a record built by end
\* carries null and a record built by the middleware carries the Host header of
\* its request, null when the request has none.
C19_HostConfiguredOrRequest ==
  /\ host = ConfiguredHost
  /\ \A c \in DOMAIN endCalls :
       endCalls[c].delivery # 0 =>
         \A k \in DOMAIN deliveries[endCalls[c].delivery].payloads :
           deliveries[endCalls[c].delivery].payloads[k].host = ConfiguredHost
  /\ \A w \in DOMAIN wrapped :
       \A k \in DOMAIN deliveries[wrapped[w].delivery].payloads :
         deliveries[wrapped[w].delivery].payloads[k].host =
           (IF ConfiguredHost # Null THEN ConfiguredHost ELSE RequestHost(w))

\* a host is configured and the middleware built a record, sent twice, for a
\* request with another Host header
C19_Witness ==
  \E w \in DOMAIN wrapped :
    /\ options.host = <<"api.example.com">>
    /\ RequestHost(w) = Str("example.com")
    /\ Len(deliveries[wrapped[w].delivery].payloads) = 2
    /\ deliveries[wrapped[w].delivery].payloads[2].host = Str("api.example.com")

\* C20: the transport call of an attempt that failed by timeout is no longer
\* outstanding, so at most one transport call of a record is outstanding.
C20_TimedOutAttemptStopped ==
  \A i \in DOMAIN deliveries :
    LET d == deliveries[i]
    IN /\ \A k \in DOMAIN d.fetches :
            d.timers[k].fired /\ k <= Len(d.failedAt) => d.fetches[k] # "pending"
       /\ Cardinality({k \in DOMAIN d.fetches : d.fetches[k] = "pending"}) <= 1

\* C21: provided timers fire, every record handed to sendLog eventually is
\* delivered or dropped, whatever the transport does (a call may never settle);
\* throughout, no more than retryAttempts transport calls were made for it and
\* its attempt number is at most retryAttempts.
C21_DeliveryTerminates ==
  /\ [](\A i \in DOMAIN deliveries :
         /\ deliveries[i].attempt <= retryAttempts
         /\ Len(deliveries[i].fetches) <= retryAttempts)
  /\ \A i \in 1..SoloStarts :
       (Len(deliveries) >= i) ~> (Len(deliveries) >= i /\ Terminal(deliveries[i]))

\* a record dropped after several attempts none of whose transport calls ever
\* settled: each attempt ended by its timeout
C21_Witness ==
  \E i \in DOMAIN deliveries :
    LET d == deliveries[i]
    IN /\ d.phase = "dropped"
       /\ Len(d.fetches) = retryAttempts
       /\ retryAttempts >= 2
       /\ \A k \in DOMAIN d.fetches : d.fetches[k] = "pending"

\* the value of a numeric option the caller configured: the number supplied,
\* or the documented default when the option was not specified
Configured(opt, d) == IF opt = << >> THEN d ELSE opt[1]

\* C22: the pipeline retries and waits by the configured values: a retry after
\* failed attempt k is decided only if k is below the configured ceiling, a
\* record is dropped only at or above it, and the wait after attempt k is the
\* configured base delay times k; the defaults 3 and 1000 stand in only for an
\* option that was not specified.
C22_ConfiguredValuesUsed ==
  LET ceiling == Configured(options.retryAttempts, DefaultRetryAttempts)
      base == Configured(options.retryDelay, DefaultRetryDelay)
  IN \A i \in DOMAIN deliveries :
       LET d == deliveries[i]
       IN /\ \A k \in DOMAIN d.waits : k < ceiling
          /\ (d.phase = "dropped" => d.attempt >= ceiling)
          /\ d.waits = [k \in DOMAIN d.waits |-> base * k]

\* the step is an end call with sessionId id
EndCalled(id) ==
  /\ Len(endCalls') = Len(endCalls) + 1
  /\ endCalls'[Len(endCalls')].id = id

\* the step is the res.send wrapper of the request that created session sid
WrapperRan(sid) ==
  /\ Len(wrapped') = Len(wrapped) + 1
  /\ requests[wrapped'[Len(wrapped')].req].sid = sid

\* C23: a step that is neither an end call with the sessionId of a registry
\* entry nor the res.send wrapper of the request that created it leaves the
\* entry in the registry as it is; hence a session no end call named and no
\* wrapper finalized is in the registry in every later state.
C23_EntryRemovedOnlyByItsOwner ==
  [][\A e \in activeLogs :
       e \in activeLogs' \/ EndCalled(e.id) \/ WrapperRan(e.sid)]_vars

\* a payload that is not structured data: a text that is not JSON, or a value
\* that is neither a text nor an object or array
Uninterpretable(payload) ==
  \/ payload.type = "string" /\ payload.v \notin JSONTexts
  \/ payload.type \notin {"string", "object", "array"}

\* C24: when the res.send wrapper is given a payload that is not structured
\* data, it still hands a record to sendLog, whose first transport call is
\* issued, removes the request's registry entry and invokes the original
\* res.send with the payload; the record's response field is null, in the
\* payload of every attempt.
C24_UninterpretableResponseIsNull ==
  /\ [](\A w \in DOMAIN wrapped :
         Uninterpretable(wrapped[w].payload) =>
           LET d == deliveries[wrapped[w].delivery]
           IN /\ d.logData.response = Null
              /\ \A k \in DOMAIN d.payloads : d.payloads[k].response = Null)
  /\ [][\A w \in DOMAIN wrapped' \ DOMAIN wrapped :
         Uninterpretable(wrapped'[w].payload) =>
           /\ Len(deliveries') = Len(deliveries) + 1
           /\ wrapped'[w].delivery = Len(deliveries')
           /\ deliveries'[Len(deliveries')].via = "middleware"
           /\ deliveries'[Len(deliveries')].fetches = <<"pending">>
           /\ ~MapHas(activeLogs', requests[wrapped'[w].req].logId)
           /\ Len(finalized') = Len(finalized) + 1
           /\ finalized'[Len(finalized')].data = wrapped'[w].data
           /\ wrapped'[w].data = wrapped'[w].payload]_vars

\* a text that is not JSON was sent: the original res.send got the text, and
\* the record, sent twice, has no response
C24_Witness ==
  \E w \in DOMAIN wrapped :
    /\ wrapped[w].payload = Str("oops")
    /\ finalized[w].data = Str("oops")
    /\ Len(deliveries[wrapped[w].delivery].payloads) = 2
    /\ deliveries[wrapped[w].delivery].payloads[2].response = Null

\* C25: a Tracker and one that differs from it in the debug flag alone, given
\* the same calls and the same transport outcomes, have the same registry and,
\* for every record, made the same transport calls at the same times with the
\* same payloads, waited the same backoff delays, logged the same failures
\* and are in the same phase with the same outcome.
C25_DebugDoesNotAlterDelivery ==
  peer.followed =>
    /\ peer.activeLogs = activeLogs
    /\ Len(peer.deliveries) = Len(deliveries)
    /\ \A i \in DOMAIN deliveries :
         LET mine == deliveries[i]
             other == peer.deliveries[i]
         IN /\ other.payloads = mine.payloads
            /\ other.startedAt = mine.startedAt
            /\ other.fetches = mine.fetches
            /\ other.waits = mine.waits
            /\ other.failedAt = mine.failedAt
            /\ other.attempt = mine.attempt
            /\ other.phase = mine.phase
            /\ other.promise = mine.promise
            /\ other.warns = mine.warns
            /\ other.errors = mine.errors

\* the Tracker in debug mode printed the record before each of two attempts
\* and the success of the second, the other Tracker printed nothing, and the
\* record has a response
C25_Witness ==
  /\ peer.followed
  /\ debug
  /\ \E i \in DOMAIN deliveries :
       /\ deliveries[i].phase = "sent"
       /\ Len(deliveries[i].payloads) = 2
       /\ deliveries[i].payloads[2].response # Null
       /\ Len(deliveries[i].console) = 3
       /\ deliveries[i].console[3].text = "RekLog sent successfully"
       /\ peer.deliveries[i].console = << >>
       /\ peer.deliveries[i].phase = "sent"

====
